---- MODULE Spec2Model ----
(***************************************************************************)
(* Model of the mortem crate: a Guard whose destructor deletes the host    *)
(* executable.  Guard::soft() tries once, Guard::hard() retries until the  *)
(* removal succeeds.  The operating system (std::env::current_exe and      *)
(* std::fs::remove_file) is modelled by its results: each call is one      *)
(* atomic step, and other threads (other guards, the permission-changing   *)
(* thread of tests/chattr.rs) may run between two calls.                   *)
(***************************************************************************)
EXTENDS Naturals, FiniteSets, Sequences, TLC

\* ---- bounds ----
NumGuards == 2          \* guards constructed in one process
MaxAttempts == 2        \* the attempt counters saturate here (the loop itself has no cap)

Guards == 1..NumGuards

\* ---- the file system seen by the process ----
ExePath == "exe"        \* the path of the running executable
OtherPath == "other"    \* some other file of the same file system
NoPath == "nopath"      \* no path bound (before Ok(path) is matched)
Paths == {ExePath, OtherPath}

VARIABLES
    files,        \* set of paths that currently exist
    readonly,     \* the executable is protected: remove_file on it fails
    resolvable,   \* the OS can report the path of the running executable
    ctor,         \* which constructor built the guard: "none", "soft", "hard"
    ensure,       \* Guard.ensure
    state,        \* "None", "Constructed", "Destroying", "Returned", "Panicked"
    pc,           \* position inside the loop of drop: "current_exe" or "remove_file"
    path,         \* the `path` bound by the Ok(path) arm
    lastRemove,   \* result of this guard's last remove_file call: "none", "ok", "err"
    resolves,     \* number of current_exe calls made by the guard (saturating)
    removes,      \* number of remove_file calls made by the guard (saturating)
    tracing,      \* the crate is built with feature "tracing"
    event         \* the last diagnostic the guard sent to the tracing subscriber

osVars == <<files, readonly, resolvable>>
guardVars == <<ctor, ensure, state, pc, path, lastRemove, resolves, removes, event>>
vars == <<files, readonly, resolvable, ctor, ensure, state, pc, path,
          lastRemove, resolves, removes, tracing, event>>

Inc(n) == IF n < MaxAttempts THEN n + 1 ELSE n

\* ---- the two OS calls, by their results ----

\* std::env::current_exe(): Ok(path of the executable) or Err
current_exe(res) ==
    IF res THEN [ok |-> TRUE, path |-> ExePath]
           ELSE [ok |-> FALSE, path |-> NoPath]

\* std::fs::remove_file(p): unlinks p when it exists and is not protected
remove_file(p, fs, ro) ==
    IF p \in fs /\ ~(ro /\ p = ExePath)
    THEN [ok |-> TRUE, files |-> fs \ {p}]
    ELSE [ok |-> FALSE, files |-> fs]

\* ---- diagnostics (feature "tracing") ----
EvNone == "none"
EvCreating == "creating mortem guard"
EvDropping == "dropping mortem guard"
EvFailed == "failed to delete executable"
EvRetrying == "failed to delete executable; retrying"
Events == {EvNone, EvCreating, EvDropping, EvFailed, EvRetrying}

\* what the subscriber saw last, after a statement that emitted ev (or nothing)
Emitted(ev, prev) == IF ev = EvNone THEN prev ELSE ev

\* #[cfg(feature = "tracing")] debug!(?ensure, "creating mortem guard")
emit_new(t, e, prev) == Emitted(IF t THEN EvCreating ELSE EvNone, prev)

\* #[cfg(feature = "tracing")] debug!(ensure = self.ensure, "dropping mortem guard")
emit_drop(t, e, prev) == Emitted(IF t THEN EvDropping ELSE EvNone, prev)

\* ---- construction ----

\* Guard::new(ensure): Guard { ensure }
Guard_new(e) == [ensure |-> e]

\* variant: soft() builds a guard that ensures deletion
Guard_soft_ensure == Guard_new(TRUE)

\* Guard::soft(): Self::new(false)
Guard_soft == Guard_new(FALSE)

\* variant: hard() builds a guard that does not ensure deletion
Guard_hard_noensure == Guard_new(FALSE)

\* Guard::hard(): Self::new(true)
Guard_hard == Guard_new(TRUE)

TypeOK ==
    /\ files \subseteq Paths
    /\ readonly \in BOOLEAN
    /\ resolvable \in BOOLEAN
    /\ ctor \in [Guards -> {"none", "soft", "hard"}]
    /\ ensure \in [Guards -> BOOLEAN]
    /\ state \in [Guards -> {"None", "Constructed", "Destroying", "Returned", "Panicked"}]
    /\ pc \in [Guards -> {"current_exe", "remove_file"}]
    /\ path \in [Guards -> Paths \cup {NoPath}]
    /\ lastRemove \in [Guards -> {"none", "ok", "err"}]
    /\ resolves \in [Guards -> 0..MaxAttempts]
    /\ removes \in [Guards -> 0..MaxAttempts]
    /\ tracing \in BOOLEAN
    /\ event \in [Guards -> Events]

Init ==
    /\ files = Paths
    /\ readonly = FALSE
    /\ resolvable = TRUE
    /\ ctor = [g \in Guards |-> "none"]
    /\ ensure = [g \in Guards |-> FALSE]
    /\ state = [g \in Guards |-> "None"]
    /\ pc = [g \in Guards |-> "current_exe"]
    /\ path = [g \in Guards |-> NoPath]
    /\ lastRemove = [g \in Guards |-> "none"]
    /\ resolves = [g \in Guards |-> 0]
    /\ removes = [g \in Guards |-> 0]
    /\ tracing \in BOOLEAN
    /\ event = [g \in Guards |-> EvNone]

\* variant: the constructor already removes the executable
soft_eager(g) ==
    /\ state[g] = "None"
    /\ ctor' = [ctor EXCEPT ![g] = "soft"]
    /\ ensure' = [ensure EXCEPT ![g] = Guard_soft.ensure]
    /\ state' = [state EXCEPT ![g] = "Constructed"]
    /\ files' = remove_file(ExePath, files, readonly).files
    /\ event' = [event EXCEPT ![g] = emit_new(tracing, Guard_soft.ensure, @)]
    /\ UNCHANGED <<readonly, resolvable, pc, path, lastRemove, resolves, removes, tracing>>

\* pub fn soft() -> Guard
soft(g) ==
    /\ state[g] = "None"
    /\ ctor' = [ctor EXCEPT ![g] = "soft"]
    /\ ensure' = [ensure EXCEPT ![g] = Guard_soft.ensure]
    /\ state' = [state EXCEPT ![g] = "Constructed"]
    /\ event' = [event EXCEPT ![g] = emit_new(tracing, Guard_soft.ensure, @)]
    /\ UNCHANGED <<osVars, pc, path, lastRemove, resolves, removes, tracing>>

\* pub fn hard() -> Guard
hard(g) ==
    /\ state[g] = "None"
    /\ ctor' = [ctor EXCEPT ![g] = "hard"]
    /\ ensure' = [ensure EXCEPT ![g] = Guard_hard.ensure]
    /\ state' = [state EXCEPT ![g] = "Constructed"]
    /\ event' = [event EXCEPT ![g] = emit_new(tracing, Guard_hard.ensure, @)]
    /\ UNCHANGED <<osVars, pc, path, lastRemove, resolves, removes, tracing>>

\* ---- destruction: impl Drop for Guard ----

\* variant: the destructor can be entered again after it has returned
drop_enter_again(g) ==
    /\ state[g] \in {"Constructed", "Returned"}
    /\ state' = [state EXCEPT ![g] = "Destroying"]
    /\ pc' = [pc EXCEPT ![g] = "current_exe"]
    /\ event' = [event EXCEPT ![g] = emit_drop(tracing, ensure[g], @)]
    /\ UNCHANGED <<osVars, ctor, ensure, path, lastRemove, resolves, removes, tracing>>

\* the guard goes out of scope: drop is entered and reaches the head of the loop
drop_enter(g) ==
    /\ state[g] = "Constructed"
    /\ state' = [state EXCEPT ![g] = "Destroying"]
    /\ pc' = [pc EXCEPT ![g] = "current_exe"]
    /\ event' = [event EXCEPT ![g] = emit_drop(tracing, ensure[g], @)]
    /\ UNCHANGED <<osVars, ctor, ensure, path, lastRemove, resolves, removes, tracing>>

\* variant: a failed resolution is swallowed by a soft guard (returns instead of panicking)
match_current_exe_tolerant(e, r) ==
    IF r.ok THEN [state |-> "Destroying", pc |-> "remove_file"]
    ELSE IF e THEN [state |-> "Destroying", pc |-> "current_exe"]
    ELSE [state |-> "Returned", pc |-> "current_exe"]

\* what the match does with the result r of current_exe()
\*   Err(_) if self.ensure => continue
\*   Err(_)                => panic!
\*   Ok(path)              => go on to remove_file(path)
match_current_exe(e, r) ==
    IF r.ok THEN [state |-> "Destroying", pc |-> "remove_file"]
    ELSE IF e THEN [state |-> "Destroying", pc |-> "current_exe"]
    ELSE [state |-> "Panicked", pc |-> "current_exe"]

\* variant: the cfg attribute covers the panic too, which is compiled out with the feature
arms_current_exe_cfgpanic(t, e, r) ==
    [next |-> IF ~t /\ ~r.ok /\ ~e
              THEN [state |-> "Returned", pc |-> "current_exe"]
              ELSE match_current_exe(e, r),
     event |-> IF t /\ ~r.ok /\ ~e THEN EvFailed ELSE EvNone]

\* the arms of the match as compiled with (t) or without the feature: the
\* Err arm of a soft guard emits error! before panic!
arms_current_exe(t, e, r) ==
    [next |-> match_current_exe(e, r),
     event |-> IF t /\ ~r.ok /\ ~e THEN EvFailed ELSE EvNone]

\* variant: the loop gives up after two failed resolutions
drop_current_exe_capped(g) ==
    /\ state[g] = "Destroying"
    /\ pc[g] = "current_exe"
    /\ LET r == current_exe(resolvable)
           t == arms_current_exe(tracing, ensure[g], r)
           m == t.next
       IN /\ state' = [state EXCEPT ![g] =
                        IF ~r.ok /\ resolves[g] >= 2 THEN "Returned" ELSE m.state]
          /\ pc' = [pc EXCEPT ![g] = m.pc]
          /\ path' = [path EXCEPT ![g] = r.path]
          /\ event' = [event EXCEPT ![g] = Emitted(t.event, @)]
    /\ resolves' = [resolves EXCEPT ![g] = Inc(@)]
    /\ UNCHANGED <<osVars, ctor, ensure, lastRemove, removes, tracing>>

\* variant: the path removed is taken from somewhere else than current_exe()
drop_current_exe_argv(g) ==
    /\ state[g] = "Destroying"
    /\ pc[g] = "current_exe"
    /\ LET r == current_exe(resolvable)
           t == arms_current_exe(tracing, ensure[g], r)
           m == t.next
       IN /\ state' = [state EXCEPT ![g] = m.state]
          /\ pc' = [pc EXCEPT ![g] = m.pc]
          /\ path' = [path EXCEPT ![g] = IF r.ok THEN OtherPath ELSE r.path]
          /\ event' = [event EXCEPT ![g] = Emitted(t.event, @)]
    /\ resolves' = [resolves EXCEPT ![g] = Inc(@)]
    /\ UNCHANGED <<osVars, ctor, ensure, lastRemove, removes, tracing>>

\* loop { match current_exe() { ... } }: the call and the three arms
drop_current_exe(g) ==
    /\ state[g] = "Destroying"
    /\ pc[g] = "current_exe"
    /\ LET r == current_exe(resolvable)
           t == arms_current_exe(tracing, ensure[g], r)
           m == t.next
       IN /\ state' = [state EXCEPT ![g] = m.state]
          /\ pc' = [pc EXCEPT ![g] = m.pc]
          /\ path' = [path EXCEPT ![g] = r.path]
          /\ event' = [event EXCEPT ![g] = Emitted(t.event, @)]
    /\ resolves' = [resolves EXCEPT ![g] = Inc(@)]
    /\ UNCHANGED <<osVars, ctor, ensure, lastRemove, removes, tracing>>

\* variant: a failed removal is fatal for a soft guard (uniformly strict policy)
after_remove_file_strict(e, ok) ==
    IF ~ok /\ e THEN [state |-> "Destroying", pc |-> "current_exe"]
    ELSE IF ~ok THEN [state |-> "Panicked", pc |-> "remove_file"]
    ELSE [state |-> "Returned", pc |-> "remove_file"]

\* variant: the result of the removal is not looked at (always break)
after_remove_file_nocheck(e, ok) ==
    [state |-> "Returned", pc |-> "remove_file"]

\* variant: a failed removal is retried whatever the mode
after_remove_file_alwaysretry(e, ok) ==
    IF ~ok THEN [state |-> "Destroying", pc |-> "current_exe"]
    ELSE [state |-> "Returned", pc |-> "remove_file"]

\* variant: the result of the removal is unwrapped (panic on Err)
after_remove_file_unwrap(e, ok) ==
    IF ok THEN [state |-> "Returned", pc |-> "remove_file"]
    ELSE [state |-> "Panicked", pc |-> "remove_file"]

\* variant: a failed removal is retried on the path already resolved (no new resolution)
after_remove_file_cached(e, ok) ==
    IF ~ok /\ e THEN [state |-> "Destroying", pc |-> "remove_file"]
    ELSE [state |-> "Returned", pc |-> "remove_file"]

\* what follows remove_file(path): is_err() && self.ensure => continue, else break
after_remove_file(e, ok) ==
    IF ~ok /\ e THEN [state |-> "Destroying", pc |-> "current_exe"]
    ELSE [state |-> "Returned", pc |-> "remove_file"]

\* the Ok arm as compiled with (t) or without the feature: a hard guard
\* emits error! before it continues
arms_remove_file(t, e, ok) ==
    [next |-> after_remove_file(e, ok),
     event |-> IF t /\ ~ok /\ e THEN EvRetrying ELSE EvNone]

\* variant: the removal is made on a path that is not the resolved one
drop_remove_file_wrongpath(g) ==
    /\ state[g] = "Destroying"
    /\ pc[g] = "remove_file"
    /\ LET r == remove_file(OtherPath, files, readonly)
           t == arms_remove_file(tracing, ensure[g], r.ok)
           a == t.next
       IN /\ files' = r.files
          /\ lastRemove' = [lastRemove EXCEPT ![g] = IF r.ok THEN "ok" ELSE "err"]
          /\ state' = [state EXCEPT ![g] = a.state]
          /\ pc' = [pc EXCEPT ![g] = a.pc]
          /\ event' = [event EXCEPT ![g] = Emitted(t.event, @)]
    /\ removes' = [removes EXCEPT ![g] = Inc(@)]
    /\ UNCHANGED <<readonly, resolvable, ctor, ensure, path, resolves, tracing>>

\* variant: a successful removal ends every destructor in progress (process-wide flag)
drop_remove_file_shared(g) ==
    /\ state[g] = "Destroying"
    /\ pc[g] = "remove_file"
    /\ LET r == remove_file(path[g], files, readonly)
           t == arms_remove_file(tracing, ensure[g], r.ok)
           a == t.next
       IN /\ files' = r.files
          /\ lastRemove' = [lastRemove EXCEPT ![g] = IF r.ok THEN "ok" ELSE "err"]
          /\ state' = [h \in Guards |->
                        IF h = g THEN a.state
                        ELSE IF r.ok /\ state[h] = "Destroying" THEN "Returned"
                        ELSE state[h]]
          /\ pc' = [pc EXCEPT ![g] = a.pc]
          /\ event' = [event EXCEPT ![g] = Emitted(t.event, @)]
    /\ removes' = [removes EXCEPT ![g] = Inc(@)]
    /\ UNCHANGED <<readonly, resolvable, ctor, ensure, path, resolves, tracing>>

\* variant: a soft guard whose removal fails turns itself into a hard one and retries
drop_remove_file_escalate(g) ==
    /\ state[g] = "Destroying"
    /\ pc[g] = "remove_file"
    /\ LET r == remove_file(path[g], files, readonly)
           t == arms_remove_file(tracing, TRUE, r.ok)
           a == t.next
       IN /\ files' = r.files
          /\ lastRemove' = [lastRemove EXCEPT ![g] = IF r.ok THEN "ok" ELSE "err"]
          /\ state' = [state EXCEPT ![g] = a.state]
          /\ pc' = [pc EXCEPT ![g] = a.pc]
          /\ ensure' = [ensure EXCEPT ![g] = IF r.ok THEN @ ELSE TRUE]
          /\ event' = [event EXCEPT ![g] = Emitted(t.event, @)]
    /\ removes' = [removes EXCEPT ![g] = Inc(@)]
    /\ UNCHANGED <<readonly, resolvable, ctor, path, resolves, tracing>>

\* Ok(path) => { if remove_file(path).is_err() && self.ensure { continue } } break
drop_remove_file(g) ==
    /\ state[g] = "Destroying"
    /\ pc[g] = "remove_file"
    /\ LET r == remove_file(path[g], files, readonly)
           t == arms_remove_file(tracing, ensure[g], r.ok)
           a == t.next
       IN /\ files' = r.files
          /\ lastRemove' = [lastRemove EXCEPT ![g] = IF r.ok THEN "ok" ELSE "err"]
          /\ state' = [state EXCEPT ![g] = a.state]
          /\ pc' = [pc EXCEPT ![g] = a.pc]
          /\ event' = [event EXCEPT ![g] = Emitted(t.event, @)]
    /\ removes' = [removes EXCEPT ![g] = Inc(@)]
    /\ UNCHANGED <<readonly, resolvable, ctor, ensure, path, resolves, tracing>>

\* one step of the destructor of g
drop(g) == drop_current_exe(g) \/ drop_remove_file(g)

\* ---- the environment ----

\* another thread protects the executable (tests/chattr.rs: set_permissions readonly)
set_readonly ==
    /\ ~readonly
    /\ readonly' = TRUE
    /\ UNCHANGED <<files, resolvable, guardVars, tracing>>

\* another thread restores the permissions
clear_readonly ==
    /\ readonly
    /\ readonly' = FALSE
    /\ UNCHANGED <<files, resolvable, guardVars, tracing>>

\* the OS stops / resumes answering the executable-path query
resolution_breaks ==
    /\ resolvable
    /\ resolvable' = FALSE
    /\ UNCHANGED <<files, readonly, guardVars, tracing>>

resolution_recovers ==
    /\ ~resolvable
    /\ resolvable' = TRUE
    /\ UNCHANGED <<files, readonly, guardVars, tracing>>

Next ==
    \/ \E g \in Guards : soft(g)
    \/ \E g \in Guards : hard(g)
    \/ \E g \in Guards : drop_enter(g)
    \/ \E g \in Guards : drop_current_exe(g)
    \/ \E g \in Guards : drop_remove_file(g)
    \/ set_readonly
    \/ clear_readonly
    \/ resolution_breaks
    \/ resolution_recovers

Spec == Init /\ [][Next]_vars

\* the build with every statement of the source compiled in
InitTracing == Init /\ tracing

\* the thread that runs a destructor keeps running it; the build is the one
\* with the feature, whose steps C15 shows to be those of the other build
FairSpec == InitTracing /\ [][Next]_vars /\ \A g \in Guards : WF_vars(drop(g))

\* ---- the outcomes named by the specification ----
Outcome(g) ==
    IF state[g] = "Panicked" THEN "AbandonedFatally"
    ELSE IF state[g] = "Returned" /\ lastRemove[g] = "ok" THEN "Deleted"
    ELSE IF state[g] = "Returned" THEN "AbandonedSilently"
    ELSE state[g]

\* g took a step of its own
Stepped(g) ==
    \/ state'[g] # state[g]
    \/ pc'[g] # pc[g]
    \/ resolves'[g] # resolves[g]
    \/ removes'[g] # removes[g]

IsSoft(g) == ctor[g] = "soft"
IsHard(g) == ctor[g] = "hard"
Destroying(g) == state[g] = "Destroying"

\* the OS call g is about to make would fail
RemoveWouldFail(g) == ~remove_file(path[g], files, readonly).ok
ResolveWouldFail == ~current_exe(resolvable).ok

\* ---------------------------------------------------------------------
\* C1: a guard built by soft() whose path resolution succeeded and whose
\* removal of the resolved path succeeds returns with outcome Deleted, and
\* the executable no longer exists at the resolved path, at the return and
\* in every later state.
C1_SoftDeleted ==
    [][\A g \in Guards :
        /\ (IsSoft(g) /\ Destroying(g) /\ pc[g] = "remove_file"
                /\ ~RemoveWouldFail(g) /\ Stepped(g)) =>
                (state'[g] = "Returned" /\ lastRemove'[g] = "ok"
                    /\ path[g] \notin files')
        /\ (IsSoft(g) /\ state'[g] = "Returned" /\ lastRemove'[g] = "ok") =>
                (path'[g] = ExePath /\ path'[g] \notin files')]_vars

C1_Witness ==
    \E g \in Guards :
        IsSoft(g) /\ Outcome(g) = "Deleted" /\ resolves[g] = 1 /\ removes[g] = 1
            /\ ExePath \notin files

\* ---------------------------------------------------------------------
\* C2 as stated: whenever a soft guard returned after a failed removal
\* (AbandonedSilently), the executable is still present.
C2_Original ==
    \A g \in Guards :
        (IsSoft(g) /\ Outcome(g) = "AbandonedSilently") => ExePath \in files

\* C2 amended: a soft guard whose removal attempt fails returns normally
\* (no panic, no retry: one resolution, one removal) and the failed attempt
\* leaves the file system as it was, so the executable is still present
\* exactly when it was present before the attempt.
C2_SoftRemovalFailure ==
    [][\A g \in Guards :
        /\ (IsSoft(g) /\ Destroying(g) /\ pc[g] = "remove_file"
                /\ RemoveWouldFail(g) /\ Stepped(g)) =>
                (state'[g] = "Returned" /\ lastRemove'[g] = "err"
                    /\ files' = files /\ removes'[g] = 1)
        /\ (IsSoft(g) /\ state'[g] = "Returned" /\ lastRemove'[g] # "ok") =>
                (resolves'[g] = 1 /\ removes'[g] = 1 /\ lastRemove'[g] = "err")]_vars

C2_Witness ==
    \E g \in Guards :
        IsSoft(g) /\ Outcome(g) = "AbandonedSilently" /\ readonly
            /\ ExePath \in files

C4_HardOnlyDeleted ==
    \A g \in Guards :
        (IsHard(g) /\ state[g] \in {"Returned", "Panicked"}) =>
            /\ state[g] = "Returned"
            /\ lastRemove[g] = "ok"
            /\ path[g] = ExePath
            /\ ExePath \notin files

\* a hard guard that returned after at least one failed iteration
C4_Witness ==
    \E g \in Guards :
        IsHard(g) /\ Outcome(g) = "Deleted" /\ resolves[g] >= 2

\* ---------------------------------------------------------------------
\* C5: for a guard built by hard(), if from some point on the path can be
\* resolved, the executable is not protected and the executable is present
\* until this guard removes it, then the destructor, which keeps running,
\* eventually returns with the executable deleted.
C5_Cleared(g) ==
    /\ IsHard(g)
    /\ state[g] \in {"Destroying", "Returned"}
    /\ resolvable
    /\ ~readonly
    /\ (ExePath \in files \/ lastRemove[g] = "ok")

C5_HardConverges ==
    \A g \in Guards :
        <>[]C5_Cleared(g) => <>(state[g] = "Returned" /\ ExePath \notin files)

\* a hard guard returned after a failed removal
C5_Witness ==
    \E g \in Guards :
        IsHard(g) /\ state[g] = "Returned" /\ lastRemove[g] = "ok"
            /\ removes[g] >= 2 /\ ExePath \notin files

\* ---------------------------------------------------------------------
\* C6: the destruction of a guard built by soft() always terminates: it
\* makes exactly one path resolution and at most one removal attempt, no
\* step leads back to the head of the loop, and a destructor in progress
\* eventually returns or panics.
SoftTerminal(g) == state[g] \in {"Returned", "Panicked"}

C6_SoftTerminates ==
    /\ [][\A g \in Guards :
            /\ (IsSoft(g) /\ Destroying(g) /\ Stepped(g)) =>
                    \/ (pc[g] = "current_exe" /\ pc'[g] = "remove_file")
                    \/ state'[g] \in {"Returned", "Panicked"}
            /\ IsSoft(g) =>
                    /\ resolves'[g] <= 1
                    /\ removes'[g] <= 1
                    /\ (state'[g] \in {"Returned", "Panicked"} => resolves'[g] = 1)
                    /\ (removes'[g] = 1 =>
                            (resolves'[g] = 1 /\ state'[g] = "Returned"))]_vars
    /\ \A g \in Guards : (IsSoft(g) /\ Destroying(g)) ~> SoftTerminal(g)

\* both soft guards have ended, one by a failed removal and one by a panic
C6_Witness ==
    \E g, h \in Guards :
        /\ IsSoft(g) /\ state[g] = "Returned" /\ lastRemove[g] = "err"
        /\ resolves[g] = 1 /\ removes[g] = 1
        /\ IsSoft(h) /\ state[h] = "Panicked" /\ resolves[h] = 1 /\ removes[h] = 0

\* ---------------------------------------------------------------------
\* C7: a guard built by hard() never panics and never gives up: while it
\* is in its destructor a next attempt is always possible, and a step made
\* while the pending OS call fails keeps it in the destructor and sends it
\* back to the head of the loop, however many attempts it has made.
StepFails(g) ==
    \/ (pc[g] = "current_exe" /\ ResolveWouldFail)
    \/ (pc[g] = "remove_file" /\ RemoveWouldFail(g))

C7_HardNeverGivesUp ==
    [][\A g \in Guards :
        /\ (IsHard(g) /\ Destroying(g) /\ StepFails(g)) =>
                /\ state'[g] = "Destroying"
                /\ (Stepped(g) => pc'[g] = "current_exe")
        /\ (IsHard(g) /\ Destroying(g)) => ENABLED drop(g)
        /\ IsHard(g) => state'[g] # "Panicked"]_vars

\* a hard guard still spinning after the counters saturated, the file gone
C7_Witness ==
    \E g \in Guards :
        IsHard(g) /\ Destroying(g) /\ resolves[g] = MaxAttempts
            /\ removes[g] = MaxAttempts /\ ExePath \notin files

\* ---------------------------------------------------------------------
\* C8: construction by soft() or hard() is always possible, makes no OS
\* call and leaves the file system unchanged; its only effect is a guard
\* in state Constructed with ensure = false for soft() and ensure = true
\* for hard().
C8_ConstructionPure ==
    [][\A g \in Guards :
        /\ (state[g] = "None" => (ENABLED soft(g) /\ ENABLED hard(g)))
        /\ (ctor'[g] = "soft" /\ state'[g] = "Constructed") => ensure'[g] = FALSE
        /\ (ctor'[g] = "hard" /\ state'[g] = "Constructed") => ensure'[g] = TRUE
        /\ (state[g] = "None" /\ state'[g] # "None") =>
                /\ state'[g] = "Constructed"
                /\ ctor'[g] \in {"soft", "hard"}
                /\ files' = files /\ readonly' = readonly /\ resolvable' = resolvable
                /\ resolves'[g] = 0 /\ removes'[g] = 0
                /\ lastRemove'[g] = "none" /\ path'[g] = NoPath
                /\ \A h \in Guards \ {g} : state'[h] = state[h] /\ ensure'[h] = ensure[h]]_vars

\* a soft and a hard guard constructed, nothing dropped, the file system untouched
C8_Witness ==
    \E g, h \in Guards :
        /\ IsSoft(g) /\ state[g] = "Constructed" /\ ~ensure[g]
        /\ IsHard(h) /\ state[h] = "Constructed" /\ ensure[h]
        /\ files = Paths

C10_Independent ==
    /\ [][Cardinality({g \in Guards : lastRemove'[g] = "ok"}) <= 1]_vars
    /\ [][\A g \in Guards :
            (Destroying(g) /\ pc[g] = "remove_file" /\ RemoveWouldFail(g)
                /\ Stepped(g)) =>
                /\ files' = files
                /\ lastRemove'[g] = "err"
                /\ IF ensure[g]
                   THEN state'[g] = "Destroying" /\ pc'[g] = "current_exe"
                   ELSE state'[g] = "Returned"]_vars
    /\ [][\A g, h \in Guards :
            (g # h /\ Stepped(g)) =>
                /\ state'[h] = state[h] /\ pc'[h] = pc[h] /\ path'[h] = path[h]
                /\ ensure'[h] = ensure[h] /\ lastRemove'[h] = lastRemove[h]
                /\ resolves'[h] = resolves[h] /\ removes'[h] = removes[h]]_vars

\* two destructors raced for the file: one removed it, the other, a hard
\* guard that had resolved the path too, failed and is retrying
C10_Witness ==
    \E g, h \in Guards :
        /\ g # h /\ lastRemove[g] = "ok" /\ state[g] = "Returned"
        /\ IsHard(h) /\ Destroying(h) /\ lastRemove[h] = "err"
        /\ ~readonly /\ removes[h] = 1 /\ ExePath \notin files

\* ---------------------------------------------------------------------
\* C11: no operation removes a file other than the running executable:
\* the path bound by a successful resolution is the one the OS query
\* returned, every removal attempt is made on that path, the file system
\* changes only by a removal step and then loses only that path, and the
\* other file is never removed.
C11_OnlyExecutableRemoved ==
    [][/\ files' \subseteq files
       /\ OtherPath \in files'
       /\ files' # files =>
            \E g \in Guards :
                /\ Destroying(g) /\ pc[g] = "remove_file" /\ Stepped(g)
                /\ files' = files \ {path[g]}
       /\ \A g \in Guards :
            /\ (Destroying(g) /\ pc[g] = "current_exe" /\ Stepped(g)
                    /\ ~ResolveWouldFail) =>
                    path'[g] = current_exe(resolvable).path
            /\ (Destroying(g) /\ pc[g] = "remove_file" /\ Stepped(g)) =>
                    /\ path[g] = ExePath
                    /\ files' \in {files, files \ {path[g]}}]_vars

\* the executable was removed while it was protected again afterwards; the
\* other file is still there
C11_Witness ==
    \E g \in Guards :
        /\ lastRemove[g] = "ok" /\ path[g] = ExePath /\ state[g] = "Returned"
        /\ files = {OtherPath} /\ readonly

\* ---------------------------------------------------------------------
\* C12: a guard built by hard() resolves the path anew in every iteration:
\* a removal attempt is pending only right after a successful resolution
\* and is made on its result, a failed removal leads back to the
\* resolution (never to another removal), a failed resolution makes no
\* removal attempt and binds no path, and the guard never made more
\* removal attempts than resolutions.
C12_ReResolved ==
    [][\A g \in Guards : IsHard(g) =>
        /\ removes'[g] <= resolves'[g]
        /\ (Destroying(g) /\ pc[g] = "remove_file" /\ Stepped(g)) =>
                /\ path[g] = current_exe(TRUE).path
                /\ resolves'[g] = resolves[g]
                /\ RemoveWouldFail(g) =>
                        (state'[g] = "Destroying" /\ pc'[g] = "current_exe")
        /\ (Destroying(g) /\ pc[g] = "current_exe" /\ Stepped(g)) =>
                /\ removes'[g] = removes[g]
                /\ lastRemove'[g] = lastRemove[g]
                /\ files' = files
                /\ IF ResolveWouldFail
                   THEN pc'[g] = "current_exe" /\ path'[g] = NoPath
                   ELSE pc'[g] = "remove_file"
                            /\ path'[g] = current_exe(resolvable).path
        /\ (state'[g] = "Destroying" /\ pc'[g] = "remove_file" /\ Stepped(g)) =>
                (pc[g] = "current_exe" /\ ~ResolveWouldFail)]_vars

\* a hard guard in its second iteration: a removal failed, the path was
\* resolved again and the next removal is pending
C12_Witness ==
    \E g \in Guards :
        /\ IsHard(g) /\ Destroying(g) /\ pc[g] = "remove_file"
        /\ lastRemove[g] = "err" /\ removes[g] = 1 /\ resolves[g] = 2

\* ---------------------------------------------------------------------
\* C13: per guard the lifecycle is Constructed, Destroying, then one
\* terminal outcome: the only changes of state are construction, entering
\* the destructor from Constructed, and leaving it by a return or a panic;
\* after a return or a panic nothing of the guard changes any more and
\* none of its operations is possible.
Terminal(g) == state[g] \in {"Returned", "Panicked"}

C13_Lifecycle ==
    [][\A g \in Guards :
        /\ state'[g] # state[g] =>
                <<state[g], state'[g]>> \in
                    {<<"None", "Constructed">>, <<"Constructed", "Destroying">>,
                     <<"Destroying", "Returned">>, <<"Destroying", "Panicked">>}
        /\ Terminal(g) =>
                /\ state'[g] = state[g] /\ pc'[g] = pc[g] /\ path'[g] = path[g]
                /\ lastRemove'[g] = lastRemove[g] /\ ensure'[g] = ensure[g]
                /\ resolves'[g] = resolves[g] /\ removes'[g] = removes[g]
                /\ ctor'[g] = ctor[g]
                /\ ~ENABLED (soft(g) \/ hard(g) \/ drop_enter(g) \/ drop(g))
        /\ Terminal(g)' =>
                Outcome(g)' \in {"Deleted", "AbandonedSilently", "AbandonedFatally"}]_vars

\* one guard ended by a panic, the other by deleting the file
C13_Witness ==
    \E g, h \in Guards :
        /\ Outcome(g) = "AbandonedFatally"
        /\ Outcome(h) = "Deleted" /\ resolves[h] = 1 /\ removes[h] = 1

\* ---------------------------------------------------------------------
\* C14: the ensure flag of a guard is the one its constructor set and no
\* later step changes it: a soft guard never goes back to the head of the
\* loop after a removal attempt, and a hard guard whose pending call fails
\* never leaves the loop.
C14_EnsureFixed ==
    [][\A g \in Guards :
        /\ state[g] # "None" => (ensure'[g] = ensure[g] /\ ctor'[g] = ctor[g])
        /\ ctor'[g] = "soft" => ensure'[g] = FALSE
        /\ ctor'[g] = "hard" => ensure'[g] = TRUE
        /\ (IsSoft(g) /\ Destroying(g) /\ pc[g] = "remove_file" /\ Stepped(g)) =>
                state'[g] = "Returned"
        /\ (IsHard(g) /\ Destroying(g) /\ StepFails(g) /\ Stepped(g)) =>
                state'[g] = "Destroying"]_vars

\* a hard guard still retrying after the counters saturated, next to a
\* soft guard that gave up after one failed removal
C14_Witness ==
    \E g, h \in Guards :
        /\ IsHard(g) /\ ensure[g] /\ Destroying(g) /\ removes[g] = MaxAttempts
        /\ IsSoft(h) /\ ~ensure[h] /\ Outcome(h) = "AbandonedSilently"

\* ---------------------------------------------------------------------
\* C15: the diagnostics have no effect on control flow: for the same mode
\* and the same result of the OS call, the code built with the feature and
\* the code built without it take the same branch, and every step of a
\* destructor goes where the build without (or with) the feature would go;
\* the feature is fixed for the whole run and a build without it emits
\* nothing.
C15_TracingTransparent ==
    [][/\ tracing' = tracing
       /\ ~tracing => \A g \in Guards : event'[g] = EvNone
       /\ \A g \in Guards :
            /\ (state[g] = "None" /\ state'[g] # "None") =>
                    (state'[g] = "Constructed" /\ files' = files
                        /\ ensure'[g] = (ctor'[g] = "hard"))
            /\ (Destroying(g) /\ pc[g] = "current_exe" /\ Stepped(g)) =>
                    LET r == current_exe(resolvable)
                        on == arms_current_exe(TRUE, ensure[g], r).next
                        off == arms_current_exe(FALSE, ensure[g], r).next
                    IN /\ on = off
                       /\ state'[g] = off.state /\ pc'[g] = off.pc
                       /\ files' = files
            /\ (Destroying(g) /\ pc[g] = "remove_file" /\ Stepped(g)) =>
                    LET r == remove_file(path[g], files, readonly)
                        on == arms_remove_file(TRUE, ensure[g], r.ok).next
                        off == arms_remove_file(FALSE, ensure[g], r.ok).next
                    IN /\ on = off
                       /\ state'[g] = off.state /\ pc'[g] = off.pc
                       /\ files' = r.files]_vars

\* a build with the feature: a soft guard emitted its error and panicked,
\* a hard guard emitted its retry message and is still in the loop
C15_Witness ==
    \E g, h \in Guards :
        /\ tracing
        /\ IsSoft(g) /\ state[g] = "Panicked" /\ event[g] = EvFailed
        /\ IsHard(h) /\ Destroying(h) /\ event[h] = EvRetrying

====
